---- MODULE Spec2Model ----
(***************************************************************************)
(* Model of the task-manager backend (src/backend/src/main.rs): the three  *)
(* SQLite tables, the validation function and the HTTP handlers.           *)
(*                                                                         *)
(* Strings the code trims or measures (titles, names, notes, tags) are     *)
(* sequences of pieces [s |-> text, n |-> repeat]: the text s repeated n   *)
(* times.  A piece whose text is " " is whitespace; every other piece      *)
(* holds no whitespace.  Option<T> is a sequence of length 0 (None) or 1   *)
(* (Some).  Strings the code only compares (status, deadline, messages)    *)
(* are TLA+ strings.                                                       *)
(***************************************************************************)
EXTENDS Integers, Sequences, FiniteSets, TLC

VARIABLES projects, assignees, tasks, sqlite_sequence, issued, resp, served,
          inflight

vars == <<projects, assignees, tasks, sqlite_sequence, issued, resp, served,
          inflight>>

\* ---------------------------------------------------------------- bounds
\* Number of requests (and restarts) a behaviour serves.
MaxServed == 3
\* Largest task identity a request addresses.
MaxTaskId == 2
\* Largest project or assignee identity a request addresses.
MaxLookupId == 2
\* Longest array the AI reply holds.
MaxItems == 1
\* Number of handlers suspended between two of their statements at a time.
MaxInflight == 2

\* --------------------------------------------------------- program limits
MaxTitleLen == 500
MaxDescriptionLen == 10000
MaxTags == 50
MaxTagLen == 100
MaxNotesLen == 2000

VALID_STATUSES == <<"todo", "in_progress", "done", "blocked">>

default_status == "todo"

\* ---------------------------------------------------------------- strings
None == <<>>
Some(v) == <<v>>

Sp == [s |-> " ", n |-> 1]
Word(w) == <<[s |-> w, n |-> 1]>>
Rep(c, k) == <<[s |-> c, n |-> k]>>

RECURSIVE len(_)
len(str) ==
    IF str = <<>> THEN 0 ELSE Len(Head(str).s) * Head(str).n + len(Tail(str))

is_empty(str) == str = <<>>

RECURSIVE trim_start(_)
trim_start(str) ==
    IF str # <<>> /\ Head(str).s = " " THEN trim_start(Tail(str)) ELSE str

RECURSIVE trim_end(_)
trim_end(str) ==
    IF str # <<>> /\ str[Len(str)].s = " "
    THEN trim_end(SubSeq(str, 1, Len(str) - 1))
    ELSE str

trim(str) == trim_end(trim_start(str))

Contains(seq, v) == \E i \in 1..Len(seq) : seq[i] = v

Max(a, b) == IF a >= b THEN a ELSE b

\* ------------------------------------------------------------- serde_json
\* The text of a JSON array of strings, as its tokens.
Tok(t, v) == [t |-> t, v |-> v]

RECURSIVE to_string_items(_)
to_string_items(list) ==
    IF list = <<>> THEN <<>>
    ELSE IF Len(list) = 1 THEN <<Tok("str", list[1])>>
    ELSE <<Tok("str", list[1]), Tok(",", <<>>)>> \o to_string_items(Tail(list))

to_string(list) == <<Tok("[", <<>>)>> \o to_string_items(list) \o <<Tok("]", <<>>)>>

from_str(text) ==
    LET n == Len(text)
        inner == SubSeq(text, 2, n - 1)
        m == Len(inner)
        shaped ==
            /\ n >= 2
            /\ text[1].t = "[" /\ text[n].t = "]"
            /\ (m = 0 \/ m % 2 = 1)
            /\ \A i \in 1..m : inner[i].t = (IF i % 2 = 1 THEN "str" ELSE ",")
    IN  IF shaped
        THEN [ok |-> TRUE, value |-> [k \in 1..((m + 1) \div 2) |-> inner[2 * k - 1].v]]
        ELSE [ok |-> FALSE, value |-> <<>>]

\* ------------------------------------------------------------- validation
validate_task(task) ==
    IF is_empty(trim(task.title)) THEN Some("title must not be empty")
    ELSE IF len(task.title) > MaxTitleLen
        THEN Some("title must be at most 500 characters")
    ELSE IF len(task.description) > MaxDescriptionLen
        THEN Some("description must be at most 10000 characters")
    ELSE IF Len(task.tags) > MaxTags THEN Some("tags must be at most 50 items")
    ELSE IF \E i \in 1..Len(task.tags) : len(task.tags[i]) > MaxTagLen
        THEN Some("each tag must be at most 100 characters")
    ELSE IF ~Contains(VALID_STATUSES, task.status)
        THEN Some("status must be one of: todo, in_progress, done, blocked")
    ELSE IF is_empty(trim(task.project)) THEN Some("project must not be empty")
    ELSE IF is_empty(trim(task.assignee)) THEN Some("assignee must not be empty")
    ELSE IF task.notes # None /\ len(task.notes[1]) > MaxNotesLen
        THEN Some("notes must be at most 2000 characters")
    ELSE None

\* --------------------------------------------------------------- database
\* The store as the handlers see it: the three tables and SQLite's
\* sqlite_sequence row of each AUTOINCREMENT table.
DB == [projects |-> projects, assignees |-> assignees, tasks |-> tasks,
       seq |-> sqlite_sequence]

EmptyDb == [projects |-> {}, assignees |-> {}, tasks |-> {},
            seq |-> [projects |-> 0, assignees |-> 0, tasks |-> 0]]

General == Word("General")
Unassigned == Word("Unassigned")

MaxRowid(rows) == IF rows = {} THEN 0 ELSE CHOOSE m \in {r.id : r \in rows} : \A r \in rows : r.id <= m

\* INTEGER PRIMARY KEY without AUTOINCREMENT: one more than the largest
\* rowid the table holds now.
NextRowid_reuse(rows, seq) == MaxRowid(rows) + 1

\* INTEGER PRIMARY KEY AUTOINCREMENT: one more than the largest rowid the
\* table has ever held.
NextRowid(rows, seq) == Max(seq, MaxRowid(rows)) + 1

\* INSERT OR IGNORE INTO <lookup> (id, name) VALUES (id, name)
InsertOrIgnore(rows, id, name) ==
    IF \E r \in rows : r.id = id \/ r.name = name
    THEN rows
    ELSE rows \cup {[id |-> id, name |-> name]}

\* INSERT OR IGNORE INTO <lookup> (name) SELECT DISTINCT trim(<column>) FROM
\* tasks WHERE trim(<column>) != '': names lists the selected values in the
\* order the SELECT yields them; t is [rows, seq].
RECURSIVE Backfill(_, _)
Backfill(t, names) ==
    IF names = <<>> THEN t
    ELSE LET id == NextRowid(t.rows, t.seq)
         IN  IF \E r \in t.rows : r.name = Head(names)
             THEN Backfill(t, Tail(names))
             ELSE Backfill([rows |-> t.rows \cup {[id |-> id, name |-> Head(names)]},
                            seq |-> id],
                           Tail(names))

\* The values the two backfills select.
LegacyProjects(db) == {trim(r.project) : r \in db.tasks} \ {<<>>}
LegacyAssignees(db) == {trim(r.assignee) : r \in db.tasks} \ {<<>>}

\* The sequences that list every element of S once.
RECURSIVE Orders(_)
Orders(S) ==
    IF S = {} THEN {<<>>}
    ELSE UNION {{<<x>> \o q : q \in Orders(S \ {x})} : x \in S}

\* porder and aorder are the orders in which the two SELECT DISTINCT yield
\* their rows.
init_db(db, porder, aorder) ==
    LET ps == InsertOrIgnore(db.projects, 1, General)
        as == InsertOrIgnore(db.assignees, 1, Unassigned)
        pt == Backfill([rows |-> ps, seq |-> Max(db.seq.projects, MaxRowid(ps))], porder)
        at == Backfill([rows |-> as, seq |-> Max(db.seq.assignees, MaxRowid(as))], aorder)
    IN  [db EXCEPT !.projects = pt.rows,
                   !.assignees = at.rows,
                   !.seq.projects = pt.seq,
                   !.seq.assignees = at.seq]

project_exists(db, name) == \E r \in db.projects : r.name = name

assignee_exists(db, name) == \E r \in db.assignees : r.name = name

\* ------------------------------------------------------------- responses
Resp(op, code, error, body) ==
    [op |-> op, code |-> code, error |-> error, body |-> body, xai |-> 0]

Out(db, r) == [db |-> db, resp |-> r, ids |-> <<>>]

\* ------------------------------------------------- projects and assignees
create_project_untrimmed(db, body_name) ==
    LET name == body_name
        id == NextRowid(db.projects, db.seq.projects)
    IN  IF is_empty(trim(name))
        THEN Out(db, Resp("create_project", 400, "name must not be empty", <<>>))
        ELSE IF \E r \in db.projects : r.name = name
        THEN Out(db, Resp("create_project", 400, "project already exists", <<>>))
        ELSE Out([db EXCEPT !.projects = @ \cup {[id |-> id, name |-> name]},
                            !.seq.projects = id],
                 Resp("create_project", 201, "", <<[id |-> id, name |-> name]>>))

create_project(db, body_name) ==
    LET name == trim(body_name)
        id == NextRowid(db.projects, db.seq.projects)
    IN  IF is_empty(name)
        THEN Out(db, Resp("create_project", 400, "name must not be empty", <<>>))
        ELSE IF \E r \in db.projects : r.name = name
        THEN Out(db, Resp("create_project", 400, "project already exists", <<>>))
        ELSE Out([db EXCEPT !.projects = @ \cup {[id |-> id, name |-> name]},
                            !.seq.projects = id],
                 Resp("create_project", 201, "", <<[id |-> id, name |-> name]>>))

\* The DELETE followed by the removal of the tasks that name the project.
delete_project_cascade(db, id) ==
    LET gone == {r \in db.projects : r.id = id}
    IN  IF id = 1
        THEN Out(db, Resp("delete_project", 400, "cannot delete default project 'General'", <<>>))
        ELSE IF gone = {}
        THEN Out(db, Resp("delete_project", 404, "project not found", <<>>))
        ELSE Out([db EXCEPT !.projects = @ \ gone,
                            !.tasks = {t \in @ : \A r \in gone : t.project # r.name}],
                 Resp("delete_project", 204, "", <<>>))

delete_project_unguarded(db, id) ==
    IF ~\E r \in db.projects : r.id = id
    THEN Out(db, Resp("delete_project", 404, "project not found", <<>>))
    ELSE Out([db EXCEPT !.projects = {r \in @ : r.id # id}],
             Resp("delete_project", 204, "", <<>>))

delete_project(db, id) ==
    IF id = 1
    THEN Out(db, Resp("delete_project", 400, "cannot delete default project 'General'", <<>>))
    ELSE IF ~\E r \in db.projects : r.id = id
    THEN Out(db, Resp("delete_project", 404, "project not found", <<>>))
    ELSE Out([db EXCEPT !.projects = {r \in @ : r.id # id}],
             Resp("delete_project", 204, "", <<>>))

create_assignee(db, body_name) ==
    LET name == trim(body_name)
        id == NextRowid(db.assignees, db.seq.assignees)
    IN  IF is_empty(name)
        THEN Out(db, Resp("create_assignee", 400, "name must not be empty", <<>>))
        ELSE IF \E r \in db.assignees : r.name = name
        THEN Out(db, Resp("create_assignee", 400, "assignee already exists", <<>>))
        ELSE Out([db EXCEPT !.assignees = @ \cup {[id |-> id, name |-> name]},
                            !.seq.assignees = id],
                 Resp("create_assignee", 201, "", <<[id |-> id, name |-> name]>>))

delete_assignee(db, id) ==
    IF id = 1
    THEN Out(db, Resp("delete_assignee", 400, "cannot delete default assignee 'Unassigned'", <<>>))
    ELSE IF ~\E r \in db.assignees : r.id = id
    THEN Out(db, Resp("delete_assignee", 404, "assignee not found", <<>>))
    ELSE Out([db EXCEPT !.assignees = {r \in @ : r.id # id}],
             Resp("delete_assignee", 204, "", <<>>))

\* ------------------------------------------------------------------ tasks
\* serde's reading of a request body into Task: id, status, in_sprint and
\* notes may be absent (None) and take their defaults.
Task(body) ==
    [id |-> IF body.id = None THEN 0 ELSE body.id[1],
     title |-> body.title,
     description |-> body.description,
     tags |-> body.tags,
     deadline |-> body.deadline,
     project |-> body.project,
     assignee |-> body.assignee,
     status |-> IF body.status = None THEN default_status ELSE body.status[1],
     in_sprint |-> IF body.in_sprint = None THEN FALSE ELSE body.in_sprint[1],
     notes |-> body.notes]

into_task(row) ==
    LET parsed == IF row.tags = <<>> THEN [ok |-> TRUE, value |-> <<>>]
                  ELSE from_str(row.tags)
    IN  [ok |-> parsed.ok,
         task |-> [id |-> row.id,
                   title |-> row.title,
                   description |-> row.description,
                   tags |-> parsed.value,
                   deadline |-> row.deadline,
                   project |-> row.project,
                   assignee |-> row.assignee,
                   status |-> row.status,
                   in_sprint |-> row.in_sprint # 0,
                   notes |-> IF row.notes # None /\ ~is_empty(row.notes[1])
                             THEN row.notes ELSE None]]

RECURSIVE OrderById(_)
OrderById(rows) ==
    IF rows = {} THEN <<>>
    ELSE LET r == CHOOSE x \in rows : \A y \in rows : x.id <= y.id
         IN  <<r>> \o OrderById(rows \ {r})

get_tasks(db) ==
    LET rows == OrderById(db.tasks)
    IN  IF \E i \in 1..Len(rows) : ~into_task(rows[i]).ok
        THEN Out(db, Resp("get_tasks", 500, "internal", <<>>))
        ELSE Out(db, Resp("get_tasks", 200, "",
                          [i \in 1..Len(rows) |-> into_task(rows[i]).task]))

\* The INSERT with the status column left to its DEFAULT 'todo'.
insert_task_status_unbound(db, title, description, tags_json, deadline, project, assignee, status, notes) ==
    LET id == NextRowid(db.tasks, db.seq.tasks)
    IN  [db |-> [db EXCEPT !.tasks = @ \cup {[id |-> id,
                                              title |-> title,
                                              description |-> description,
                                              tags |-> tags_json,
                                              deadline |-> deadline,
                                              project |-> project,
                                              assignee |-> assignee,
                                              status |-> "todo",
                                              in_sprint |-> 0,
                                              notes |-> Some(notes)]},
                           !.seq.tasks = id],
         id |-> id]

\* INSERT INTO tasks (...) VALUES (?, ?, ?, ?, ?, ?, ?, 0, ?) RETURNING id
insert_task(db, title, description, tags_json, deadline, project, assignee, status, notes) ==
    LET id == NextRowid(db.tasks, db.seq.tasks)
    IN  [db |-> [db EXCEPT !.tasks = @ \cup {[id |-> id,
                                              title |-> title,
                                              description |-> description,
                                              tags |-> tags_json,
                                              deadline |-> deadline,
                                              project |-> project,
                                              assignee |-> assignee,
                                              status |-> status,
                                              in_sprint |-> 0,
                                              notes |-> Some(notes)]},
                           !.seq.tasks = id],
         id |-> id]

\* Lines 346-351: the handler overrides id, status and in_sprint.
Coerce(task) ==
    [task EXCEPT !.id = 0,
                 !.status = IF task.status = "" \/ ~Contains(VALID_STATUSES, task.status)
                            THEN "todo" ELSE task.status,
                 !.in_sprint = FALSE]

\* The INSERT made to insert nothing when the project or the assignee has no
\* row at the time it runs.
create_task_insert_if_exists(db, task_inner) ==
    LET tags_json == to_string(task_inner.tags)
        notes == trim(IF task_inner.notes = None THEN <<>> ELSE task_inner.notes[1])
        ins == insert_task(db, task_inner.title, task_inner.description, tags_json,
                           task_inner.deadline, task_inner.project,
                           task_inner.assignee, task_inner.status, notes)
    IN  IF ~project_exists(db, task_inner.project)
        THEN Out(db, Resp("create_task", 400, "project does not exist", <<>>))
        ELSE IF ~assignee_exists(db, task_inner.assignee)
        THEN Out(db, Resp("create_task", 400, "assignee does not exist", <<>>))
        ELSE [db |-> ins.db,
              resp |-> Resp("create_task", 201, "", <<[task_inner EXCEPT !.id = ins.id]>>),
              ids |-> <<ins.id>>]

\* Lines 368-397: the INSERT and the answer built from task_inner.
create_task_insert(db, task_inner) ==
    LET tags_json == to_string(task_inner.tags)
        notes == trim(IF task_inner.notes = None THEN <<>> ELSE task_inner.notes[1])
        ins == insert_task(db, task_inner.title, task_inner.description, tags_json,
                           task_inner.deadline, task_inner.project,
                           task_inner.assignee, task_inner.status, notes)
    IN  [db |-> ins.db,
         resp |-> Resp("create_task", 201, "", <<[task_inner EXCEPT !.id = ins.id]>>),
         ids |-> <<ins.id>>]

\* The assignee looked up before the project.
create_task_assignee_first(db, body) ==
    LET task_inner == Coerce(Task(body))
        msg == validate_task(task_inner)
    IN  IF msg # None
        THEN Out(db, Resp("create_task", 400, msg[1], <<>>))
        ELSE IF ~assignee_exists(db, task_inner.assignee)
        THEN Out(db, Resp("create_task", 400, "assignee does not exist", <<>>))
        ELSE IF ~project_exists(db, task_inner.project)
        THEN Out(db, Resp("create_task", 400, "project does not exist", <<>>))
        ELSE create_task_insert(db, task_inner)

\* The INSERT run before the lookups are consulted.
create_task_insert_first(db, body) ==
    LET task_inner == Coerce(Task(body))
        msg == validate_task(task_inner)
        ins == create_task_insert(db, task_inner)
    IN  IF msg # None
        THEN Out(db, Resp("create_task", 400, msg[1], <<>>))
        ELSE IF ~project_exists(db, task_inner.project)
        THEN [ins EXCEPT !.resp = Resp("create_task", 400, "project does not exist", <<>>)]
        ELSE IF ~assignee_exists(db, task_inner.assignee)
        THEN [ins EXCEPT !.resp = Resp("create_task", 400, "assignee does not exist", <<>>)]
        ELSE ins

create_task(db, body) ==
    LET task_inner == Coerce(Task(body))
        msg == validate_task(task_inner)
    IN  IF msg # None
        THEN Out(db, Resp("create_task", 400, msg[1], <<>>))
        ELSE IF ~project_exists(db, task_inner.project)
        THEN Out(db, Resp("create_task", 400, "project does not exist", <<>>))
        ELSE IF ~assignee_exists(db, task_inner.assignee)
        THEN Out(db, Resp("create_task", 400, "assignee does not exist", <<>>))
        ELSE create_task_insert(db, task_inner)

update_task(db, id, body) ==
    LET task == Task(body)
        msg == validate_task(task)
        tags_json == to_string(task.tags)
        notes == trim(IF task.notes = None THEN <<>> ELSE task.notes[1])
        set(r) == IF r.id # id THEN r
                  ELSE [id |-> id,
                        title |-> task.title,
                        description |-> task.description,
                        tags |-> tags_json,
                        deadline |-> task.deadline,
                        project |-> task.project,
                        assignee |-> task.assignee,
                        status |-> task.status,
                        in_sprint |-> IF task.in_sprint THEN 1 ELSE 0,
                        notes |-> Some(notes)]
    IN  IF msg # None
        THEN Out(db, Resp("update_task", 400, msg[1], <<>>))
        ELSE IF ~project_exists(db, task.project)
        THEN Out(db, Resp("update_task", 400, "project does not exist", <<>>))
        ELSE IF ~assignee_exists(db, task.assignee)
        THEN Out(db, Resp("update_task", 400, "assignee does not exist", <<>>))
        ELSE IF ~\E r \in db.tasks : r.id = id
        THEN Out(db, Resp("update_task", 404, "task not found", <<>>))
        ELSE Out([db EXCEPT !.tasks = {set(r) : r \in @}],
                 Resp("update_task", 200, "", <<[task EXCEPT !.id = id]>>))

\* SELECT ... FROM tasks WHERE id=? ; fetch_one ; into_task
Refreshed(db, op, id) ==
    LET found == {r \in db.tasks : r.id = id}
        row == CHOOSE r \in found : TRUE
    IN  IF found = {} \/ ~into_task(row).ok
        THEN Out(db, Resp(op, 500, "internal", <<>>))
        ELSE Out(db, Resp(op, 200, "", <<into_task(row).task>>))

\* The UPDATE without its WHERE clause.
update_task_sprint_every_row(db, id, in_sprint) ==
    IF ~\E r \in db.tasks : r.id = id
    THEN Out(db, Resp("update_task_sprint", 404, "task not found", <<>>))
    ELSE Refreshed([db EXCEPT !.tasks =
                        {[r EXCEPT !.in_sprint = IF in_sprint THEN 1 ELSE 0] : r \in @}],
                   "update_task_sprint", id)

update_task_sprint(db, id, in_sprint) ==
    IF ~\E r \in db.tasks : r.id = id
    THEN Out(db, Resp("update_task_sprint", 404, "task not found", <<>>))
    ELSE Refreshed([db EXCEPT !.tasks =
                        {IF r.id = id THEN [r EXCEPT !.in_sprint = IF in_sprint THEN 1 ELSE 0]
                         ELSE r : r \in @}],
                   "update_task_sprint", id)

\* The UPDATE run without the check of the status.
update_task_status_unchecked(db, id, status) ==
    IF ~\E r \in db.tasks : r.id = id
    THEN Out(db, Resp("update_task_status", 404, "task not found", <<>>))
    ELSE Refreshed([db EXCEPT !.tasks =
                        {IF r.id = id THEN [r EXCEPT !.status = status] ELSE r : r \in @}],
                   "update_task_status", id)

\* The UPDATE run before the check of the status.
update_task_status_lookup_first(db, id, status) ==
    IF ~\E r \in db.tasks : r.id = id
    THEN Out(db, Resp("update_task_status", 404, "task not found", <<>>))
    ELSE IF ~Contains(VALID_STATUSES, status)
    THEN Out(db, Resp("update_task_status", 400, "invalid status", <<>>))
    ELSE Refreshed([db EXCEPT !.tasks =
                        {IF r.id = id THEN [r EXCEPT !.status = status] ELSE r : r \in @}],
                   "update_task_status", id)

update_task_status(db, id, status) ==
    IF ~Contains(VALID_STATUSES, status)
    THEN Out(db, Resp("update_task_status", 400, "invalid status", <<>>))
    ELSE IF ~\E r \in db.tasks : r.id = id
    THEN Out(db, Resp("update_task_status", 404, "task not found", <<>>))
    ELSE Refreshed([db EXCEPT !.tasks =
                        {IF r.id = id THEN [r EXCEPT !.status = status] ELSE r : r \in @}],
                   "update_task_status", id)

delete_task(db, id) ==
    IF ~\E r \in db.tasks : r.id = id
    THEN Out(db, Resp("delete_task", 404, "task not found", <<>>))
    ELSE Out([db EXCEPT !.tasks = {r \in @ : r.id # id}],
             Resp("delete_task", 204, "", <<>>))

\* ------------------------------------------------ statements of a handler
\* Lines 422-456 of update_task: the UPDATE of every column WHERE id=?, the
\* test of rows_affected and the answer built from the request.
update_task_update(db, id, task) ==
    LET tags_json == to_string(task.tags)
        notes == trim(IF task.notes = None THEN <<>> ELSE task.notes[1])
    IN  IF ~\E r \in db.tasks : r.id = id
        THEN Out(db, Resp("update_task", 404, "task not found", <<>>))
        ELSE Out([db EXCEPT !.tasks =
                      {IF r.id # id THEN r
                       ELSE [id |-> id,
                             title |-> task.title,
                             description |-> task.description,
                             tags |-> tags_json,
                             deadline |-> task.deadline,
                             project |-> task.project,
                             assignee |-> task.assignee,
                             status |-> task.status,
                             in_sprint |-> IF task.in_sprint THEN 1 ELSE 0,
                             notes |-> Some(notes)] : r \in @}],
                 Resp("update_task", 200, "", <<[task EXCEPT !.id = id]>>))

\* "UPDATE tasks SET status=? WHERE id=?": the store after it and
\* rows_affected.
update_task_status_update(db, id, status) ==
    [db |-> [db EXCEPT !.tasks =
                {IF r.id = id THEN [r EXCEPT !.status = status] ELSE r : r \in @}],
     rows_affected |-> Cardinality({r \in db.tasks : r.id = id})]

\* "UPDATE tasks SET in_sprint=? WHERE id=?": the store after it and
\* rows_affected.
update_task_sprint_update(db, id, in_sprint) ==
    [db |-> [db EXCEPT !.tasks =
                {IF r.id = id THEN [r EXCEPT !.in_sprint = IF in_sprint THEN 1 ELSE 0]
                 ELSE r : r \in @}],
     rows_affected |-> Cardinality({r \in db.tasks : r.id = id})]

\* ---------------------------------------------------------- AI extraction
\* One object of the parsed array.  A field is Some(string) when the object
\* holds a string under that key and None otherwise; tags is Some(array)
\* whose elements are Some(string) or None (not a string).
RECURSIVE filter_strings(_)
filter_strings(arr) ==
    IF arr = <<>> THEN <<>>
    ELSE (IF Head(arr) = None THEN <<>> ELSE <<Head(arr)[1]>>) \o filter_strings(Tail(arr))

unwrap_or(opt, default) == IF opt = None THEN default ELSE opt[1]

\* The candidate Task with the item's project taken as it comes.
Materialize_raw_project(db, item) ==
    LET project_raw == unwrap_or(item.project, General)
        assignee_raw == unwrap_or(item.assignee, Unassigned)
    IN  [id |-> 0,
         title |-> unwrap_or(item.title, Word("Untitled")),
         description |-> unwrap_or(item.description, <<>>),
         tags |-> IF item.tags = None THEN <<Word("ai-generated")>>
                  ELSE filter_strings(item.tags[1]),
         deadline |-> IF item.deadline # None /\ item.deadline[1] # ""
                      THEN item.deadline ELSE None,
         project |-> project_raw,
         assignee |-> IF assignee_exists(db, assignee_raw) THEN assignee_raw ELSE Unassigned,
         status |-> IF item.status # None /\ Contains(VALID_STATUSES, item.status[1])
                    THEN item.status[1] ELSE "todo",
         in_sprint |-> FALSE,
         notes |-> None]

\* Lines 700-762: the candidate Task of one item.
Materialize(db, item) ==
    LET project_raw == unwrap_or(item.project, General)
        assignee_raw == unwrap_or(item.assignee, Unassigned)
    IN  [id |-> 0,
         title |-> unwrap_or(item.title, Word("Untitled")),
         description |-> unwrap_or(item.description, <<>>),
         tags |-> IF item.tags = None THEN <<Word("ai-generated")>>
                  ELSE filter_strings(item.tags[1]),
         deadline |-> IF item.deadline # None /\ item.deadline[1] # ""
                      THEN item.deadline ELSE None,
         project |-> IF project_exists(db, project_raw) THEN project_raw ELSE General,
         assignee |-> IF assignee_exists(db, assignee_raw) THEN assignee_raw ELSE Unassigned,
         status |-> IF item.status # None /\ Contains(VALID_STATUSES, item.status[1])
                    THEN item.status[1] ELSE "todo",
         in_sprint |-> FALSE,
         notes |-> None]

\* The loop over the parsed array: acc is [db, created, ids].
RECURSIVE GenerateLoop(_, _)
GenerateLoop(acc, items) ==
    IF items = <<>> THEN acc
    ELSE LET task == Materialize(acc.db, Head(items))
             ins == insert_task(acc.db, task.title, task.description,
                                to_string(task.tags), task.deadline, task.project,
                                task.assignee, task.status, <<>>)
         IN  IF validate_task(task) = None
             THEN GenerateLoop([db |-> ins.db,
                                created |-> Append(acc.created, [task EXCEPT !.id = ins.id]),
                                ids |-> Append(acc.ids, ins.id)],
                               Tail(items))
             ELSE GenerateLoop(acc, Tail(items))

\* Lines 636-802: the outbound call and what follows it.  reply is what
\* the call brings back: kind "transport" (send failed), "status"
\* (non-success status), "no_content" (no first choice or no content), or
\* "content" with json = Some(array) when the extracted text parses as a
\* JSON array and None when it does not.
Extract(db, reply) ==
    LET Sent(code, error, body) ==
            [Resp("generate_tasks_from_ai", code, error, body) EXCEPT !.xai = 1]
        done == GenerateLoop([db |-> db, created |-> <<>>, ids |-> <<>>], reply.json[1])
    IN  IF reply.kind = "transport"
        THEN Out(db, Sent(500, "xAI API request failed", <<>>))
        ELSE IF reply.kind = "status"
        THEN Out(db, Sent(502, "xAI API error", <<>>))
        ELSE IF reply.kind = "no_content"
        THEN Out(db, Sent(500, "No content in xAI response", <<>>))
        ELSE IF reply.json = None
        THEN Out(db, Sent(500, "Failed to parse AI response as JSON", <<>>))
        ELSE [db |-> done.db, resp |-> Sent(201, "", done.created), ids |-> done.ids]

\* The notes tested for emptiness without trimming.
generate_tasks_from_ai_untrimmed(db, api_key, meeting_notes, reply) ==
    LET notes == meeting_notes
    IN  IF api_key = ""
        THEN Out(db, Resp("generate_tasks_from_ai", 503,
                          "XAI_API_KEY is not configured. Please set the environment variable.",
                          <<>>))
        ELSE IF is_empty(notes)
        THEN Out(db, Resp("generate_tasks_from_ai", 400, "meeting_notes must not be empty", <<>>))
        ELSE Extract(db, reply)

generate_tasks_from_ai(db, api_key, meeting_notes, reply) ==
    LET notes == trim(meeting_notes)
    IN  IF api_key = ""
        THEN Out(db, Resp("generate_tasks_from_ai", 503,
                          "XAI_API_KEY is not configured. Please set the environment variable.",
                          <<>>))
        ELSE IF is_empty(notes)
        THEN Out(db, Resp("generate_tasks_from_ai", 400, "meeting_notes must not be empty", <<>>))
        ELSE Extract(db, reply)

\* ----------------------------------------------------------------- inputs
Backend == Word("Backend")
Alice == Word("Alice")
Ghost == Word("Ghost")

ProjectNames == {Backend, <<Sp>> \o Backend \o <<Sp>>, <<Sp>>, General}
AssigneeNames == {Alice, <<Sp>> \o Alice, <<>>, Unassigned}

LookupIds == 1..MaxLookupId
TaskIds == 1..MaxTaskId

BaseBody ==
    [id |-> None, title |-> Word("t"), description |-> <<>>, tags |-> <<>>,
     deadline |-> None, project |-> General, assignee |-> Unassigned,
     status |-> None, in_sprint |-> None, notes |-> None]

RichBody ==
    [id |-> Some(7), title |-> Word("t"), description |-> <<>>,
     tags |-> <<Word("a"), Word("b")>>, deadline |-> Some("2025-02-25"),
     project |-> Backend, assignee |-> Alice, status |-> Some("done"),
     in_sprint |-> Some(TRUE), notes |-> Some(<<Sp>> \o Word("n") \o <<Sp>>)]

TaskBodies ==
    {BaseBody,
     RichBody,
     [BaseBody EXCEPT !.status = Some("bogus"), !.in_sprint = Some(TRUE), !.notes = Some(<<>>)],
     [BaseBody EXCEPT !.status = Some(""), !.notes = Some(<<Sp>>)],
     [BaseBody EXCEPT !.title = <<Sp>>, !.project = Ghost],
     [BaseBody EXCEPT !.title = Rep("x", MaxTitleLen + 1)],
     [BaseBody EXCEPT !.description = Rep("x", MaxDescriptionLen + 1)],
     [BaseBody EXCEPT !.tags = [i \in 1..(MaxTags + 1) |-> Word("a")], !.project = Ghost],
     [BaseBody EXCEPT !.tags = <<Rep("x", MaxTagLen + 1)>>],
     [BaseBody EXCEPT !.project = <<Sp>>],
     [BaseBody EXCEPT !.assignee = <<>>],
     [BaseBody EXCEPT !.notes = Some(Rep("x", MaxNotesLen + 1)), !.project = Ghost,
                      !.assignee = Ghost],
     [BaseBody EXCEPT !.project = Ghost, !.assignee = Ghost],
     [BaseBody EXCEPT !.assignee = Ghost],
     [BaseBody EXCEPT !.project = Backend],
     [BaseBody EXCEPT !.assignee = Alice]}

\* The bodies of the full update: a plain one, one setting every field, one
\* with a status outside the enumeration and one naming no project.
UpdateBodies ==
    {BaseBody,
     RichBody,
     [BaseBody EXCEPT !.status = Some("bogus")],
     [BaseBody EXCEPT !.project = Ghost]}

StatusInputs == {"done", "bogus", ""}

ApiKeys == {"", "key"}
MeetingNotes == {<<>>, <<Sp>>, Word("notes")}

BareItem ==
    [title |-> None, description |-> None, tags |-> None, deadline |-> None,
     project |-> None, assignee |-> None, status |-> None]

Items ==
    {BareItem,
     [BareItem EXCEPT !.title = Some(Word("t")), !.tags = Some(<<None>>),
                      !.deadline = Some(""), !.project = Some(Backend),
                      !.assignee = Some(Ghost), !.status = Some("bogus")],
     [BareItem EXCEPT !.title = Some(<<Sp>>)]}

RECURSIVE SeqsUpTo(_, _)
SeqsUpTo(S, n) ==
    IF n = 0 THEN {<<>>}
    ELSE LET shorter == SeqsUpTo(S, n - 1)
         IN  shorter \cup {Append(q, x) : q \in shorter, x \in S}

Replies ==
    {[kind |-> k, json |-> None] : k \in {"transport", "status", "no_content", "content"}}
    \cup {[kind |-> "content", json |-> Some(q)] : q \in SeqsUpTo(Items, MaxItems)}

NoReply == [kind |-> "transport", json |-> None]

\* The generate requests: the reply matters only when the call is made.
GenerateRequests ==
    {[api_key |-> k, meeting_notes |-> n, reply |-> r] :
        k \in ApiKeys, n \in MeetingNotes, r \in Replies}

GenerateInputs ==
    {q \in GenerateRequests :
        (q.api_key = "" \/ is_empty(trim(q.meeting_notes))) => q.reply = NoReply}

\* ---------------------------------------------------------------- actions
Init ==
    LET db == init_db(EmptyDb, <<>>, <<>>)
    IN  /\ projects = db.projects
        /\ assignees = db.assignees
        /\ tasks = db.tasks
        /\ sqlite_sequence = db.seq
        /\ issued = <<>>
        /\ resp = Resp("init_db", 0, "", <<>>)
        /\ served = 0
        /\ inflight = {}

\* The step of one request: the handler's effect on the store, its answer,
\* and the task identities its INSERTs returned.
Apply(out) ==
    /\ served < MaxServed
    /\ served' = served + 1
    /\ projects' = out.db.projects
    /\ assignees' = out.db.assignees
    /\ tasks' = out.db.tasks
    /\ sqlite_sequence' = out.db.seq
    /\ issued' = issued \o out.ids
    /\ resp' = out.resp
    /\ inflight' = inflight

\* The server is stopped and started again on the same store.
Restart ==
    \E porder \in Orders(LegacyProjects(DB)), aorder \in Orders(LegacyAssignees(DB)) :
        Apply(Out(init_db(DB, porder, aorder), Resp("init_db", 0, "", <<>>)))

CreateProject == \E name \in ProjectNames : Apply(create_project(DB, name))

DeleteProject == \E id \in LookupIds : Apply(delete_project(DB, id))

CreateAssignee == \E name \in AssigneeNames : Apply(create_assignee(DB, name))

DeleteAssignee == \E id \in LookupIds : Apply(delete_assignee(DB, id))

GetTasks == Apply(get_tasks(DB))

CreateTask == \E body \in TaskBodies : Apply(create_task(DB, body))

UpdateTask == \E id \in TaskIds, body \in UpdateBodies : Apply(update_task(DB, id, body))

UpdateTaskSprint == \E id \in TaskIds, in_sprint \in BOOLEAN : Apply(update_task_sprint(DB, id, in_sprint))

UpdateTaskStatus == \E id \in TaskIds, status \in StatusInputs : Apply(update_task_status(DB, id, status))

DeleteTask == \E id \in TaskIds : Apply(delete_task(DB, id))

GenerateTasksFromAi ==
    \E q \in GenerateInputs :
        Apply(generate_tasks_from_ai(DB, q.api_key, q.meeting_notes, q.reply))

Next ==
    \/ Restart
    \/ CreateProject
    \/ DeleteProject
    \/ CreateAssignee
    \/ DeleteAssignee
    \/ GetTasks
    \/ CreateTask
    \/ UpdateTask
    \/ UpdateTaskSprint
    \/ UpdateTaskStatus
    \/ DeleteTask
    \/ GenerateTasksFromAi

Spec == Init /\ [][Next]_vars

\* ------------------------------------------- handlers taken by statement
\* A handler gives the thread up at each await of a statement, so the
\* statements of the handlers in progress interleave.  A handler at an
\* await is a record of inflight: req numbers the request, pc names the
\* statement it runs next, and the other fields are its locals.
Handler(req, op, pc, id, task, status, in_sprint) ==
    [req |-> req, op |-> op, pc |-> pc, id |-> id, task |-> task,
     status |-> status, in_sprint |-> in_sprint]

NoTask == Task(BaseBody)

ConcurrentBodies ==
    {BaseBody,
     [BaseBody EXCEPT !.project = Backend],
     [BaseBody EXCEPT !.assignee = Alice],
     [BaseBody EXCEPT !.title = <<Sp>>]}

ConcurrentUpdates ==
    {[BaseBody EXCEPT !.status = Some("blocked")],
     [BaseBody EXCEPT !.project = Backend, !.in_sprint = Some(TRUE)],
     [BaseBody EXCEPT !.status = Some("bogus")]}

ConcurrentStatuses == {"done", "in_progress", "bogus"}

ConcurrentNames == {Backend, <<Sp>>}

\* The handler runs up to the await of its second statement.
Suspend(db, h) ==
    /\ served < MaxServed
    /\ Cardinality(inflight) < MaxInflight
    /\ served' = served + 1
    /\ inflight' = inflight \cup {h}
    /\ projects' = db.projects
    /\ assignees' = db.assignees
    /\ tasks' = db.tasks
    /\ sqlite_sequence' = db.seq
    /\ UNCHANGED <<issued, resp>>

\* The handler h runs one statement that only reads and goes on as h2.
Advance(h, h2) ==
    /\ inflight' = (inflight \ {h}) \cup {h2}
    /\ UNCHANGED <<projects, assignees, tasks, sqlite_sequence, issued, resp, served>>

\* The handler h runs a statement and answers.
Finish(h, out) ==
    /\ inflight' = inflight \ {h}
    /\ projects' = out.db.projects
    /\ assignees' = out.db.assignees
    /\ tasks' = out.db.tasks
    /\ sqlite_sequence' = out.db.seq
    /\ issued' = issued \o out.ids
    /\ resp' = out.resp
    /\ served' = served

\* create_task, lines 346-360: validation and the SELECT of the project.
CreateTaskProjectExists ==
    \E body \in ConcurrentBodies :
        LET task_inner == Coerce(Task(body))
            msg == validate_task(task_inner)
        IN  IF msg # None
            THEN Apply(Out(DB, Resp("create_task", 400, msg[1], <<>>)))
            ELSE IF ~project_exists(DB, task_inner.project)
            THEN Apply(Out(DB, Resp("create_task", 400, "project does not exist", <<>>)))
            ELSE Suspend(DB, Handler(served + 1, "create_task", "assignee_exists", 0,
                                     task_inner, "", FALSE))

\* create_task, lines 361-366: the SELECT of the assignee.
CreateTaskAssigneeExists ==
    \E h \in inflight :
        /\ h.op = "create_task" /\ h.pc = "assignee_exists"
        /\ IF ~assignee_exists(DB, h.task.assignee)
           THEN Finish(h, Out(DB, Resp("create_task", 400, "assignee does not exist", <<>>)))
           ELSE Advance(h, [h EXCEPT !.pc = "insert"])

\* create_task, lines 368-397: the INSERT and the answer.
CreateTaskInsert ==
    \E h \in inflight :
        /\ h.op = "create_task" /\ h.pc = "insert"
        /\ Finish(h, create_task_insert(DB, h.task))

\* update_task, lines 405-414: validation and the SELECT of the project.
UpdateTaskProjectExists ==
    \E id \in TaskIds, body \in ConcurrentUpdates :
        LET task == Task(body)
            msg == validate_task(task)
        IN  IF msg # None
            THEN Apply(Out(DB, Resp("update_task", 400, msg[1], <<>>)))
            ELSE IF ~project_exists(DB, task.project)
            THEN Apply(Out(DB, Resp("update_task", 400, "project does not exist", <<>>)))
            ELSE Suspend(DB, Handler(served + 1, "update_task", "assignee_exists", id,
                                     task, "", FALSE))

\* update_task, lines 415-420: the SELECT of the assignee.
UpdateTaskAssigneeExists ==
    \E h \in inflight :
        /\ h.op = "update_task" /\ h.pc = "assignee_exists"
        /\ IF ~assignee_exists(DB, h.task.assignee)
           THEN Finish(h, Out(DB, Resp("update_task", 400, "assignee does not exist", <<>>)))
           ELSE Advance(h, [h EXCEPT !.pc = "update"])

\* update_task, lines 422-456: the UPDATE and the answer.
UpdateTaskUpdate ==
    \E h \in inflight :
        /\ h.op = "update_task" /\ h.pc = "update"
        /\ Finish(h, update_task_update(DB, h.id, h.task))

\* update_task_status, lines 501-515: the check of the status and the UPDATE.
UpdateTaskStatusUpdate ==
    \E id \in TaskIds, status \in ConcurrentStatuses :
        LET done == update_task_status_update(DB, id, status)
        IN  IF ~Contains(VALID_STATUSES, status)
            THEN Apply(Out(DB, Resp("update_task_status", 400, "invalid status", <<>>)))
            ELSE IF done.rows_affected = 0
            THEN Apply(Out(done.db, Resp("update_task_status", 404, "task not found", <<>>)))
            ELSE Suspend(done.db, Handler(served + 1, "update_task_status", "select", id,
                                          NoTask, status, FALSE))

\* update_task_status, lines 517-524: the SELECT of the row and the answer.
UpdateTaskStatusSelect ==
    \E h \in inflight :
        /\ h.op = "update_task_status" /\ h.pc = "select"
        /\ Finish(h, Refreshed(DB, "update_task_status", h.id))

\* update_task_sprint, lines 469-479: the UPDATE.
UpdateTaskSprintUpdate ==
    \E id \in TaskIds, in_sprint \in BOOLEAN :
        LET done == update_task_sprint_update(DB, id, in_sprint)
        IN  IF done.rows_affected = 0
            THEN Apply(Out(done.db, Resp("update_task_sprint", 404, "task not found", <<>>)))
            ELSE Suspend(done.db, Handler(served + 1, "update_task_sprint", "select", id,
                                          NoTask, "", in_sprint))

\* update_task_sprint, lines 481-488: the SELECT of the row and the answer.
UpdateTaskSprintSelect ==
    \E h \in inflight :
        /\ h.op = "update_task_sprint" /\ h.pc = "select"
        /\ Finish(h, Refreshed(DB, "update_task_sprint", h.id))

\* The handlers of one statement.
ConcurrentCreateProject == \E name \in ConcurrentNames : Apply(create_project(DB, name))

ConcurrentCreateAssignee == \E name \in {Alice, <<>>} : Apply(create_assignee(DB, name))

NextInterleaved ==
    \/ ConcurrentCreateProject
    \/ DeleteProject
    \/ ConcurrentCreateAssignee
    \/ DeleteAssignee
    \/ DeleteTask
    \/ CreateTaskProjectExists
    \/ CreateTaskAssigneeExists
    \/ CreateTaskInsert
    \/ UpdateTaskProjectExists
    \/ UpdateTaskAssigneeExists
    \/ UpdateTaskUpdate
    \/ UpdateTaskStatusUpdate
    \/ UpdateTaskStatusSelect
    \/ UpdateTaskSprintUpdate
    \/ UpdateTaskSprintSelect

Interleaved == Init /\ [][NextInterleaved]_vars

\* ------------------------------------------------------------ properties
\* The status enumeration of the data model, written out.
StatusEnumeration == {"todo", "in_progress", "done", "blocked"}

\* The field constraints of a task other than its status, written out.
FieldsValid(task) ==
    /\ \E i \in 1..Len(task.title) : task.title[i].s # " "
    /\ len(task.title) <= 500
    /\ len(task.description) <= 10000
    /\ Len(task.tags) <= 50
    /\ \A i \in 1..Len(task.tags) : len(task.tags[i]) <= 100
    /\ \E i \in 1..Len(task.project) : task.project[i].s # " "
    /\ \E i \in 1..Len(task.assignee) : task.assignee[i].s # " "
    /\ (task.notes # None => len(task.notes[1]) <= 2000)

\* A name and the same name with whitespace around it.
Padded(name) == {name, <<Sp>> \o name, name \o <<Sp>>, <<Sp>> \o name \o <<Sp>>}

\* C1: every identity assigned to a new task (by create task or by the AI
\* extraction) is positive and greater than every identity assigned before
\* it, whether or not the earlier task has been deleted since.
C1_IdentitiesIncrease ==
    \A i \in 1..Len(issued) :
        /\ issued[i] > 0
        /\ \A j \in 1..(i - 1) : issued[j] < issued[i]

\* A task was created and deleted, and a later task got the next identity.
C1_Witness ==
    /\ Len(issued) >= 2
    /\ \A r \in tasks : r.id # issued[1]
    /\ \E r \in tasks : r.id = issued[2]

\* C2: the status of every stored task is one of todo, in_progress, done,
\* blocked.
C2_StatusInEnumeration == \A r \in tasks : r.status \in StatusEnumeration

\* A full update carrying a status outside the enumeration was refused while
\* the store holds a task.
C2_Witness ==
    /\ resp.op = "update_task"
    /\ resp.error = "status must be one of: todo, in_progress, done, blocked"
    /\ tasks # {}

\* C3: delete project and delete assignee with identity 1 answer with the
\* fixed rejection and change nothing, and the rows (1, "General") and
\* (1, "Unassigned") are in their tables.
C3_DefaultsStay ==
    /\ delete_project(DB, 1).db = DB
    /\ delete_project(DB, 1).resp.code = 400
    /\ delete_project(DB, 1).resp.error = "cannot delete default project 'General'"
    /\ delete_assignee(DB, 1).db = DB
    /\ delete_assignee(DB, 1).resp.code = 400
    /\ delete_assignee(DB, 1).resp.error = "cannot delete default assignee 'Unassigned'"
    /\ [id |-> 1, name |-> Word("General")] \in projects
    /\ [id |-> 1, name |-> Word("Unassigned")] \in assignees

\* Delete project 1 was refused while the store holds another project and a
\* task.
C3_Witness ==
    /\ resp.op = "delete_project"
    /\ resp.code = 400
    /\ Cardinality(projects) > 1
    /\ tasks # {}

\* C4 as claimed: create task with a project name absent from the projects
\* table answers "project does not exist" whatever the other fields are.
C4_Original ==
    [][\A body \in TaskBodies :
        (~(\E r \in projects : r.name = body.project) /\ Apply(create_task(DB, body)))
            => resp'.error = "project does not exist"]_vars

\* C4 as amended: create task with a project name absent from the projects
\* table answers 400; the error is "project does not exist" when the other
\* fields meet their constraints, whatever the assignee names, and the
\* violated constraint's message when they do not.
C4_UnknownProject ==
    \A body \in TaskBodies :
        LET out == create_task(DB, body)
        IN  ~(\E r \in projects : r.name = body.project) =>
                /\ out.resp.code = 400
                /\ FieldsValid(body) <=> out.resp.error = "project does not exist"

\* Create task was refused for its project while the store holds a task.
C4_Witness ==
    /\ resp.op = "create_task"
    /\ resp.error = "project does not exist"
    /\ tasks # {}

\* C5: a create task request that is refused leaves the three tables as they
\* were; a title longer than 500 characters and a project or assignee that
\* names no row are refused.
C5_RejectedCreatePersistsNothing ==
    \A body \in TaskBodies :
        LET out == create_task(DB, body)
        IN  /\ out.resp.code \in {201, 400}
            /\ out.resp.code = 400 => (out.db = DB /\ out.ids = <<>>)
            /\ len(body.title) > 500 => out.resp.code = 400
            /\ ~(\E r \in projects : r.name = body.project) => out.resp.code = 400
            /\ ~(\E r \in assignees : r.name = body.assignee) => out.resp.code = 400

\* Create task was refused for its title's length while the store holds a
\* task.
C5_Witness ==
    /\ resp.op = "create_task"
    /\ resp.error = "title must be at most 500 characters"
    /\ tasks # {}

\* C6: update status with a value outside the enumeration answers 400
\* "invalid status" for an identity that exists and for one that does not,
\* and changes nothing.
C6_InvalidStatusRefused ==
    \A id \in 1..(MaxTaskId + 1), status \in StatusInputs \cup {"TODO"} :
        LET out == update_task_status(DB, id, status)
        IN  status \notin StatusEnumeration =>
                /\ out.resp.code = 400
                /\ out.resp.error = "invalid status"
                /\ out.db = DB

\* Update status was refused while the store holds a task.
C6_Witness ==
    /\ resp.op = "update_task_status"
    /\ resp.code = 400
    /\ tasks # {}

SprintIds(db) == {r.id : r \in db.tasks \cap {t \in db.tasks : t.in_sprint # 0}}

\* The stores the handlers other than full update and update sprint lead to.
NonSprintOutcomes ==
    {create_task(DB, body).db : body \in TaskBodies}
    \cup {update_task_status(DB, id, status).db : id \in TaskIds, status \in StatusInputs}
    \cup {delete_task(DB, id).db : id \in TaskIds}
    \cup {generate_tasks_from_ai(DB, q.api_key, q.meeting_notes, q.reply).db : q \in GenerateInputs}
    \cup {create_project(DB, name).db : name \in ProjectNames}
    \cup {delete_project(DB, id).db : id \in LookupIds}
    \cup {create_assignee(DB, name).db : name \in AssigneeNames}
    \cup {delete_assignee(DB, id).db : id \in LookupIds}
    \cup {get_tasks(DB).db}

\* C7: a successful create task inserts one row, with in_sprint false, with
\* the request's status when that is in the enumeration and todo otherwise,
\* and with the same identity whatever id the request carries; no handler
\* other than full update and update sprint turns an in_sprint true.
C7_CreateForcesFields ==
    /\ \A body \in TaskBodies :
        LET out == create_task(DB, body)
            new == out.db.tasks \ tasks
        IN  out.resp.code = 201 =>
                /\ Cardinality(new) = 1
                /\ \A r \in new :
                    /\ r.in_sprint = 0
                    /\ r.status = IF body.status # None /\ body.status[1] \in StatusEnumeration
                                  THEN body.status[1] ELSE "todo"
                /\ \A cid \in {None, Some(0), Some(1), Some(7)} :
                    create_task(DB, [body EXCEPT !.id = cid]).db = out.db
    /\ \A db \in NonSprintOutcomes : SprintIds(db) \subseteq SprintIds(DB)

\* Create task answered a request that carried id 7, status done and
\* in_sprint true, and the row it stored is not in the sprint.
C7_Witness ==
    /\ resp.op = "create_task"
    /\ resp.code = 201
    /\ resp.body[1].status = "done"
    /\ \E r \in tasks : r.id = resp.body[1].id /\ r.id # 7 /\ r.in_sprint = 0 /\ r.status = "done"

\* Empty notes read as absent.
NormalizeNotes(task) ==
    [task EXCEPT !.notes = IF @ # None /\ is_empty(@[1]) THEN None ELSE @]

\* C8 as claimed: the task a successful create task returns equals, field by
\* field and with empty notes read as absent, the entry list tasks returns
\* for that identity right after it.
C8_ReturnedIsStored ==
    (resp.op = "create_task" /\ resp.code = 201) =>
        LET listed == get_tasks(DB).resp.body
        IN  \E i \in 1..Len(listed) :
                /\ listed[i].id = resp.body[1].id
                /\ listed[i] = NormalizeNotes(resp.body[1])

\* C9: create project and create assignee with a name that, trimmed, is the
\* name of a row answer 400 "already exists" and change nothing; a name of
\* whitespace only is refused; no two rows of a lookup table share a name.
C9_NamesUnique ==
    /\ \A r \in projects : \A name \in Padded(r.name) :
        /\ create_project(DB, name).resp.code = 400
        /\ create_project(DB, name).resp.error = "project already exists"
        /\ create_project(DB, name).db = DB
    /\ \A r \in assignees : \A name \in Padded(r.name) :
        /\ create_assignee(DB, name).resp.code = 400
        /\ create_assignee(DB, name).resp.error = "assignee already exists"
        /\ create_assignee(DB, name).db = DB
    /\ \A name \in {<<>>, <<Sp>>, <<Sp, Sp>>} :
        /\ create_project(DB, name).resp.code = 400
        /\ create_project(DB, name).db = DB
        /\ create_assignee(DB, name).resp.code = 400
        /\ create_assignee(DB, name).db = DB
    /\ \A r1, r2 \in projects : r1.name = r2.name => r1 = r2
    /\ \A r1, r2 \in assignees : r1.name = r2.name => r1 = r2

\* Create project was refused as a duplicate while the table holds a project
\* beside the default.
C9_Witness ==
    /\ resp.op = "create_project"
    /\ resp.error = "project already exists"
    /\ Cardinality(projects) > 1

\* C10 as claimed: a generate request whose meeting_notes is empty after
\* trimming is answered 400 "meeting_notes must not be empty", with or
\* without a credential.
C10_Original ==
    [][\A q \in GenerateInputs :
        ((\A i \in 1..Len(q.meeting_notes) : q.meeting_notes[i].s = " ")
         /\ Apply(generate_tasks_from_ai(DB, q.api_key, q.meeting_notes, q.reply)))
            => (resp'.code = 400 /\ resp'.error = "meeting_notes must not be empty")]_vars

\* C10 as amended: a generate request whose meeting_notes is empty after
\* trimming is answered 400 "meeting_notes must not be empty" when a
\* credential is configured and 503 when none is; either way no outbound
\* call is made and the store is unchanged.
C10_EmptyNotesRefused ==
    \A q \in GenerateRequests :
        LET out == generate_tasks_from_ai(DB, q.api_key, q.meeting_notes, q.reply)
        IN  (\A i \in 1..Len(q.meeting_notes) : q.meeting_notes[i].s = " ") =>
                /\ out.resp.xai = 0
                /\ out.db = DB
                /\ out.ids = <<>>
                /\ q.api_key # "" =>
                    (out.resp.code = 400 /\ out.resp.error = "meeting_notes must not be empty")
                /\ q.api_key = "" => out.resp.code = 503

\* A generate request was refused for its empty notes while the store holds
\* a task.
C10_Witness ==
    /\ resp.op = "generate_tasks_from_ai"
    /\ resp.code = 400
    /\ resp.xai = 0
    /\ tasks # {}

\* The items whose title, description and tags meet the constraints and whose
\* project, assignee and status are absent, known, unknown or padded.
C11_Items ==
    {[BareItem EXCEPT !.title = Some(Word("t")), !.project = p, !.assignee = a, !.status = s] :
        p \in {None, Some(Backend), Some(Ghost), Some(<<Sp>> \o Backend)},
        a \in {None, Some(Alice), Some(Ghost)},
        s \in {None, Some("done"), Some("bogus")}}

\* The reply whose content parses as the array items.
C11_Reply(items) == [kind |-> "content", json |-> Some(items)]

\* What the extraction of item followed by a bare item leaves: the answer's
\* code, the identities issued and the rows added.
C11_Outcome(item) ==
    LET out == generate_tasks_from_ai(DB, "key", Word("notes"), C11_Reply(<<item, BareItem>>))
    IN  [code |-> out.resp.code, ids |-> out.ids, new |-> out.db.tasks \ tasks]

\* C11: the AI extraction persists every item whose other fields are valid,
\* whatever its project, assignee and status: the stored project is the
\* item's when a row of projects has that name and "General" otherwise, the
\* stored assignee is the item's when a row of assignees has that name and
\* "Unassigned" otherwise, the stored status is the item's when it is in the
\* enumeration and todo otherwise; the batch answers 201 and the item after
\* it is persisted too.
C11_FallbackNeverDrops ==
    \A item \in C11_Items :
        \E o \in {C11_Outcome(item)} :
            /\ o.code = 201
            /\ Len(o.ids) = 2
            /\ Cardinality(o.new) = 2
            /\ \E r \in o.new :
                /\ r.id = o.ids[1]
                /\ r.project = IF item.project # None
                                   /\ \E p \in projects : p.name = item.project[1]
                                THEN item.project[1] ELSE Word("General")
                /\ r.assignee = IF item.assignee # None
                                    /\ \E a \in assignees : a.name = item.assignee[1]
                                 THEN item.assignee[1] ELSE Word("Unassigned")
                /\ r.status = IF item.status # None /\ item.status[1] \in StatusEnumeration
                               THEN item.status[1] ELSE "todo"
            /\ \E r \in o.new :
                /\ r.id = o.ids[2]
                /\ r.project = Word("General")
                /\ r.assignee = Word("Unassigned")

\* The AI extraction persisted an item that names a project of the table, an
\* unknown assignee and an unknown status.
C11_Witness ==
    /\ resp.op = "generate_tasks_from_ai"
    /\ resp.code = 201
    /\ Len(resp.body) = 1
    /\ resp.body[1].project = Backend
    /\ \E r \in tasks :
        /\ r.id = resp.body[1].id
        /\ r.project = Backend
        /\ r.assignee = Unassigned
        /\ r.status = "todo"

\* The store db differs from the current one at most in field f of the task
\* row id, whose value in db is v.
C13_OnlyField(db, id, f, v) ==
    /\ db.projects = projects
    /\ db.assignees = assignees
    /\ db.seq = sqlite_sequence
    /\ {r.id : r \in db.tasks} = {r.id : r \in tasks}
    /\ Cardinality(db.tasks) = Cardinality(tasks)
    /\ \A r \in tasks : r.id # id => r \in db.tasks
    /\ \A r \in db.tasks : r.id = id =>
        /\ r[f] = v
        /\ \E old \in tasks :
            /\ old.id = id
            /\ \A g \in (DOMAIN old) \ {f} : r[g] = old[g]

\* C13: update status that answers 200 changes only the status of the task
\* row with the given identity, update sprint that answers 200 changes only
\* its in_sprint; every other column of the row, every other row and the
\* projects and assignees tables stay; when no task has the identity both
\* answer 404 and change nothing.
C13_UpdateFrame ==
    \A id \in 1..(MaxTaskId + 1) :
        /\ \A status \in StatusEnumeration :
            LET out == update_task_status(DB, id, status)
            IN  /\ out.resp.code = 200 => C13_OnlyField(out.db, id, "status", status)
                /\ (~\E r \in tasks : r.id = id) =>
                    /\ out.resp.code = 404
                    /\ out.resp.error = "task not found"
                    /\ out.db = DB
        /\ \A in_sprint \in BOOLEAN :
            LET out == update_task_sprint(DB, id, in_sprint)
            IN  /\ out.resp.code = 200 =>
                    C13_OnlyField(out.db, id, "in_sprint", IF in_sprint THEN 1 ELSE 0)
                /\ (~\E r \in tasks : r.id = id) =>
                    /\ out.resp.code = 404
                    /\ out.resp.error = "task not found"
                    /\ out.db = DB

\* Update sprint put one of two stored tasks into the sprint.
C13_Witness ==
    /\ resp.op = "update_task_sprint"
    /\ resp.code = 200
    /\ resp.body[1].in_sprint
    /\ Cardinality(tasks) >= 2
    /\ \E r \in tasks : r.id # resp.body[1].id /\ r.in_sprint = 0

\* The task row names a project or an assignee that no lookup row has.
C14_Dangling(r) ==
    \/ ~\E p \in projects : p.name = r.project
    \/ ~\E a \in assignees : a.name = r.assignee

\* The body of a full update that sends a stored row back, with the title
\* and the sprint flag the client chooses.
C14_Resubmit(r, title, in_sprint) ==
    [id |-> Some(r.id), title |-> title, description |-> r.description,
     tags |-> into_task(r).task.tags, deadline |-> r.deadline,
     project |-> r.project, assignee |-> r.assignee, status |-> Some(r.status),
     in_sprint |-> Some(in_sprint), notes |-> into_task(r).task.notes]

\* C14: delete project and delete assignee remove at most the lookup row
\* with the given identity and leave every task row as it is; a full update
\* of a task whose project or assignee names no lookup row, sending the same
\* names again, answers 400 with "project does not exist" or "assignee does
\* not exist" and changes nothing.
C14_DeleteLeavesTasks ==
    /\ \A id \in 1..(MaxLookupId + 1) :
        /\ delete_project(DB, id).db.tasks = tasks
        /\ delete_project(DB, id).db.assignees = assignees
        /\ delete_project(DB, id).db.projects \subseteq projects
        /\ \A p \in projects \ delete_project(DB, id).db.projects : p.id = id
        /\ delete_assignee(DB, id).db.tasks = tasks
        /\ delete_assignee(DB, id).db.projects = projects
        /\ delete_assignee(DB, id).db.assignees \subseteq assignees
        /\ \A a \in assignees \ delete_assignee(DB, id).db.assignees : a.id = id
    /\ \A r \in tasks : C14_Dangling(r) =>
        \A title \in {r.title, Word("u")}, in_sprint \in BOOLEAN :
            LET out == update_task(DB, r.id, C14_Resubmit(r, title, in_sprint))
            IN  /\ out.resp.code = 400
                /\ out.resp.error =
                    IF ~\E p \in projects : p.name = r.project
                    THEN "project does not exist" ELSE "assignee does not exist"
                /\ out.db = DB

\* Delete project removed the row a stored task names, and the task still
\* names it.
C14_Witness ==
    /\ resp.op = "delete_project"
    /\ resp.code = 204
    /\ \E r \in tasks : r.project = Backend /\ ~\E p \in projects : p.name = r.project

\* C12: a create task that has passed both existence checks and waits for
\* its INSERT succeeds whatever the lookup tables hold by then: the INSERT
\* answers 201 and stores a row with the project and the assignee that were
\* checked, so when a delete project (or delete assignee) has removed that
\* name since the check, the store holds a task whose project (or assignee)
\* names no row of the lookup table.
C12_InsertAfterDelete ==
    \A h \in inflight :
        (h.op = "create_task" /\ h.pc = "insert") =>
            LET out == create_task_insert(DB, h.task)
                new == out.db.tasks \ tasks
            IN  /\ out.resp.code = 201
                /\ out.db.projects = projects
                /\ out.db.assignees = assignees
                /\ Cardinality(new) = 1
                /\ \A r \in new :
                    /\ r.id = out.resp.body[1].id
                    /\ r.project = h.task.project
                    /\ r.assignee = h.task.assignee
                    /\ (~\E p \in projects : p.name = h.task.project) =>
                        ~\E p \in out.db.projects : p.name = r.project
                    /\ (~\E a \in assignees : a.name = h.task.assignee) =>
                        ~\E a \in out.db.assignees : a.name = r.assignee

\* Create task has just answered 201 and the row it stored names a project
\* that has no row: the project was deleted after the check and before the
\* INSERT.
C12_Witness ==
    /\ resp.op = "create_task"
    /\ resp.code = 201
    /\ \E r \in tasks :
        /\ r.id = resp.body[1].id
        /\ r.project = Backend
        /\ ~\E p \in projects : p.name = r.project

\* C15 as claimed: an update status whose UPDATE matched a row and that
\* waits for its SELECT never ends in an internal error, and the row it
\* returns has the requested identity and the requested status, whatever
\* statements of other handlers ran since its UPDATE.
C15_ReturnsRequestedStatus ==
    \A h \in inflight :
        (h.op = "update_task_status" /\ h.pc = "select") =>
            LET out == Refreshed(DB, "update_task_status", h.id)
            IN  /\ out.resp.code # 500
                /\ out.resp.code = 200 =>
                    /\ out.resp.body[1].id = h.id
                    /\ out.resp.body[1].status = h.status

====
